---- MODULE Spec2Model ----
(***************************************************************************)
(* The undo/redo history manager  useHistoryState  (hooks/useHistoryState) *)
(* as a state machine.                                                     *)
(*                                                                         *)
(* The hook keeps one React state cell holding {past, present, future}.    *)
(* set, setInitial and clearHistory enqueue an update on that cell.  undo  *)
(* and redo first test the constants canUndo / canRedo that were computed  *)
(* by the LAST render (they are captured by the useCallback closures) and  *)
(* only then enqueue a functional update.  React applies the queued        *)
(* updates in the order they were issued, each to the result of the one    *)
(* before; `state` below is the result of that fold, i.e. the cell as the  *)
(* next render will see it.  Render recomputes canUndo / canRedo.          *)
(***************************************************************************)
EXTENDS Integers, Sequences, FiniteSets, TLC

\* ---- bounds ----
MaxVal     == 1    \* stored values are 0..MaxVal
MaxEntries == 3    \* HistoryEntry objects allocated in one run
MaxBatch   == 3    \* operations issued between two renders

\* |past| + |future| never exceeds this (undefined entries included)
MaxHist == MaxEntries + 1

Values == 0 .. MaxVal
Labels == {"inc"}
\* what new Date().toLocaleTimeString() returned at the call
Times  == {"10:15:00 AM"}

\* the label argument was left out of the call
Omitted == "<omitted>"
LabelArgs == Labels \cup {Omitted}

\* what an out-of-range array read (past[-1], future[0] of []) evaluates to
undefined == [state |-> -1, label |-> "undefined", id |-> 0]

\* When T is Contact[] a value is an array reference and === compares
\* references.  Structure(v) is the content of the array v refers to: the
\* references 2k and 2k+1 are two arrays with the same content.
Structure(v) == v \div 2

\* HistoryEntry: state, label, and the identity of the object literal
HistoryEntry(v, l, i) == [state |-> v, label |-> l, id |-> i]

\* HistoryState
HistoryState(p, c, f) == [past |-> p, present |-> c, future |-> f]

\* first arguments of set: a literal value or a function of the current value
Updaters == {"same", "next", "zero"}
NewPresentStates ==
    [kind : {"value"}, v : Values, f : {"same"}] \cup
    [kind : {"function"}, v : {0}, f : Updaters]

ApplyUpdater(f, cur) ==
    CASE f = "same" -> cur
      [] f = "next" -> (cur + 1) % (MaxVal + 1)
      [] OTHER      -> 0

\* typeof newPresentState === 'function' ? newPresentState(cur) : newPresentState
\* (an updater "alloc" builds an array and returns its reference, n.v)
resolvedPresentState(n, cur) ==
    IF n.kind = "function" /\ n.f # "alloc" THEN ApplyUpdater(n.f, cur) ELSE n.v

\* setLabel with an empty default
setLabel_empty(l, t) == IF l = Omitted THEN "" ELSE l

\* default parameter of set:  `Update at ${new Date().toLocaleTimeString()}`
setLabel(l, t) == IF l = Omitted THEN "Update at " \o t ELSE l

\* default parameter of the constructor and of setInitial
initialLabel(l) == IF l = Omitted THEN "Initial State" ELSE l

VARIABLES
    state,      \* the React state cell after every update issued so far
    canUndo,    \* const canUndo of the last render, captured by undo
    canRedo,    \* const canRedo of the last render, captured by redo
    crashed,    \* a TypeError escaped (reading .state / .label of undefined)
    nextId,     \* identity given to the next HistoryEntry object literal
    pending,    \* operations issued since the last render
    lastOp,     \* the operation issued last
    before,     \* `state` as the operation issued last found it
    discarded,  \* identities that were in future when a set cleared it
    returned,   \* state, history and currentLabel as the last render returned them
    baseline,   \* identity of the entry the last setInitial (or the constructor) made
    \* -- the cells of App (App.tsx) next to the manager --
    isLoading,            \* useState(true)
    renderedIsLoading,    \* isLoading as the last render saw it
    saved,                \* the argument of the last saveContacts call
    theme,                \* useState<Theme>('dark')
    currentPage,          \* useState<Page>('dashboard')
    calendarEvents,       \* useState<CalendarEvent[]>([])
    displaySettings,      \* useState<DisplaySettings>({...})
    lastAlert,            \* the message of the last alert(...)
    chatSessions,         \* useState<ChatSession[]>([])
    activeChatSessionId,  \* useState<string | null>(null)
    isChatLoading,        \* useState(false)
    chatInstance,         \* chatInstance.current is set (the ai client exists)
    requests,             \* the runs of handleSendChatMessage that await the model
    heap,                 \* the contacts of the array each reference points to
    clock                 \* Date.now()

hookVars == <<state, canUndo, canRedo, crashed, nextId, pending, lastOp, before,
              discarded, returned, baseline>>

shellVars == <<isLoading, renderedIsLoading, saved, theme, currentPage,
               calendarEvents, displaySettings, lastAlert>>

chatVars == <<chatSessions, activeChatSessionId, isChatLoading, chatInstance,
              requests>>

contactVars == <<heap, clock>>

vars == <<hookVars, shellVars, chatVars, contactVars>>

\* nothing was handed to saveContacts yet
NoSave == [contacts |-> -1, entry |-> 0]

\* null
NoSession == 0

\* returnValue whose history runs on into future
returnValue_withFuture(s) ==
    [state        |-> s.present.state,
     history      |-> Append(s.past, s.present) \o s.future,
     currentLabel |-> s.present.label]

\* the object the hook returns, without the callbacks and the two flags:
\* state: state.present.state, history: [...state.past, state.present],
\* currentLabel: state.present.label
returnValue(s) ==
    [state        |-> s.present.state,
     history      |-> Append(s.past, s.present),
     currentLabel |-> s.present.label]

\* the application constructs the hook once, with one value and no label:
\* useHistoryState<Contact[]>([])
initialPresent == 0

\* useState({past: [], present: {state: initialPresent, label}, future: []})
\* followed by the first render
Init ==
    \E v \in {initialPresent}, l \in {Omitted} :
        /\ state = HistoryState(<<>>, HistoryEntry(v, initialLabel(l), 1), <<>>)
        /\ canUndo = FALSE
        /\ canRedo = FALSE
        /\ crashed = FALSE
        /\ nextId = 2
        /\ pending = 0
        /\ lastOp = "construct"
        /\ before = state
        /\ discarded = {}
        /\ returned = returnValue(state)
        /\ baseline = 1
        /\ isLoading = TRUE
        /\ renderedIsLoading = TRUE
        /\ saved = NoSave
        /\ theme = "dark"
        /\ currentPage = "dashboard"
        /\ calendarEvents = "[]"
        /\ displaySettings = "default"
        /\ lastAlert = ""
        /\ chatSessions = <<>>
        /\ activeChatSessionId = NoSession
        /\ isChatLoading = FALSE
        /\ chatInstance = FALSE
        /\ requests = {}
        /\ heap = [r \in {initialPresent} |-> <<>>]
        /\ clock = 1

\* ---- the functional updates handed to setState ----

\* currentState.past.slice(0, currentState.past.length - 1)
AllButLast(q) == SubSeq(q, 1, Len(q) - 1)

\* currentState.past[currentState.past.length - 1]
LastOf(q) == IF Len(q) > 0 THEN q[Len(q)] ELSE undefined

\* currentState.future[0]
FirstOf(q) == IF Len(q) > 0 THEN q[1] ELSE undefined

\* currentState.future.slice(1)
Rest(q) == SubSeq(q, 2, Len(q))

\* undoUpdater that relabels the entry it restores
undoUpdater_relabel(s) ==
    HistoryState(AllButLast(s.past), [LastOf(s.past) EXCEPT !.label = "Undo"],
                 <<s.present>> \o s.future)

undoUpdater(s) ==
    HistoryState(AllButLast(s.past), LastOf(s.past), <<s.present>> \o s.future)

\* redoUpdater taking the furthest redo entry instead of the nearest
redoUpdater_last(s) ==
    HistoryState(Append(s.past, s.present), LastOf(s.future), AllButLast(s.future))

redoUpdater(s) ==
    HistoryState(Append(s.past, s.present), FirstOf(s.future), Rest(s.future))

\* setUpdater putting the old present at the front of past
setUpdater_prepend(s, r, e) ==
    IF r = s.present.state
    THEN s
    ELSE HistoryState(<<s.present>> \o s.past, e, <<>>)

\* setUpdater that forgets to clear future
setUpdater_keepFuture(s, r, e) ==
    IF r = s.present.state
    THEN s
    ELSE HistoryState(Append(s.past, s.present), e, s.future)

\* setUpdater without the same-value test
setUpdater_noCheck(s, r, e) ==
    HistoryState(Append(s.past, s.present), e, <<>>)

\* set whose no-op test compares contents instead of references
setUpdater_deepEqual(s, r, e) ==
    IF Structure(r) = Structure(s.present.state)
    THEN s
    ELSE HistoryState(Append(s.past, s.present), e, <<>>)

\* r is the resolved value, e the new entry {state: r, label}
setUpdater(s, r, e) ==
    IF r = s.present.state
    THEN s
    ELSE HistoryState(Append(s.past, s.present), e, <<>>)

clearHistoryUpdater(s) == HistoryState(<<>>, s.present, <<>>)

\* ---- bookkeeping (no program state) ----

Ids(q) == {q[i].id : i \in 1 .. Len(q)} \ {0}

Issued(op) ==
    /\ pending' = pending + 1
    /\ lastOp' = op
    /\ before' = state

Room == Len(state.past) + Len(state.future) < MaxHist

\* ---- operations ----

undo ==
    /\ ~crashed
    /\ pending < MaxBatch
    /\ Issued("undo")
    /\ Len(state.past) > 0 \/ Room
    /\ state' = IF ~canUndo THEN state ELSE undoUpdater(state)
    /\ UNCHANGED <<canUndo, canRedo, crashed, nextId, discarded, returned, baseline>>

redo ==
    /\ ~crashed
    /\ pending < MaxBatch
    /\ Issued("redo")
    /\ Len(state.future) > 0 \/ Room
    /\ state' = IF ~canRedo THEN state ELSE redoUpdater(state)
    /\ UNCHANGED <<canUndo, canRedo, crashed, nextId, discarded, returned, baseline>>

\* reading currentState.present.state of an undefined present throws
\* (the cap on allocated entries leaves room for one more entry per chat
\* request in flight, so that two function calls of one response fit)
set(n, l, t) ==
    /\ ~crashed
    /\ pending < MaxBatch
    /\ Issued("set")
    /\ Len(state.past) < MaxHist
    /\ IF state.present = undefined
       THEN /\ crashed' = TRUE
            /\ UNCHANGED <<state, nextId, discarded>>
       ELSE LET r == resolvedPresentState(n, state.present.state)
                e == HistoryEntry(r, setLabel(l, t), nextId)
            IN  /\ r # state.present.state =>
                       nextId <= MaxEntries + Cardinality(requests)
                /\ state' = setUpdater(state, r, e)
                /\ nextId' = IF state' = state THEN nextId ELSE nextId + 1
                /\ discarded' = IF state' = state THEN discarded
                                ELSE discarded \cup Ids(state.future)
                /\ UNCHANGED crashed
    /\ UNCHANGED <<canUndo, canRedo, returned, baseline>>

\* setInitial that records the load as one more edit
setInitial_asEdit(v, l) ==
    /\ ~crashed
    /\ pending < MaxBatch
    /\ Issued("setInitial")
    /\ nextId <= MaxEntries
    /\ state' = HistoryState(Append(state.past, state.present),
                             HistoryEntry(v, initialLabel(l), nextId), <<>>)
    /\ nextId' = nextId + 1
    /\ baseline' = nextId
    /\ UNCHANGED <<canUndo, canRedo, crashed, discarded, returned>>

setInitial(v, l) ==
    /\ ~crashed
    /\ pending < MaxBatch
    /\ Issued("setInitial")
    /\ nextId <= MaxEntries
    /\ state' = HistoryState(<<>>, HistoryEntry(v, initialLabel(l), nextId), <<>>)
    /\ nextId' = nextId + 1
    /\ baseline' = nextId
    /\ UNCHANGED <<canUndo, canRedo, crashed, discarded, returned>>

clearHistory ==
    /\ ~crashed
    /\ pending < MaxBatch
    /\ Issued("clearHistory")
    /\ state' = clearHistoryUpdater(state)
    /\ UNCHANGED <<canUndo, canRedo, crashed, nextId, discarded, returned, baseline>>

\* the host re-renders: the queued updates are committed, canUndo and canRedo
\* are recomputed and the return value reads state.present.state / .label
Render ==
    /\ ~crashed
    /\ IF state.present = undefined
       THEN /\ crashed' = TRUE
            /\ UNCHANGED <<canUndo, canRedo, pending, returned>>
       ELSE /\ canUndo' = (Len(state.past) > 0)
            /\ canRedo' = (Len(state.future) > 0)
            /\ returned' = returnValue(state)
            /\ pending' = 0
            /\ UNCHANGED crashed
    /\ UNCHANGED <<state, nextId, lastOp, before, discarded, baseline>>

\* the manager on its own: the cells of App stay as they are
appVars == <<shellVars, chatVars, contactVars>>

Next ==
    \/ undo /\ UNCHANGED appVars
    \/ redo /\ UNCHANGED appVars
    \/ \E n \in NewPresentStates, l \in LabelArgs, t \in Times :
           set(n, l, t) /\ UNCHANGED appVars
    \/ \E v \in Values, l \in LabelArgs : setInitial(v, l) /\ UNCHANGED appVars
    \/ clearHistory /\ UNCHANGED appVars
    \/ Render /\ UNCHANGED appVars

Spec == Init /\ [][Next]_vars

\* ---- the operations as section 4.1 of the specification words them ----

AllIds(s) == Ids(s.past) \cup Ids(<<s.present>>) \cup Ids(s.future)

SeqUndo(s) ==
    IF Len(s.past) > 0
    THEN [past    |-> SubSeq(s.past, 1, Len(s.past) - 1),
          present |-> s.past[Len(s.past)],
          future  |-> <<s.present>> \o s.future]
    ELSE s

SeqRedo(s) ==
    IF Len(s.future) > 0
    THEN [past    |-> s.past \o <<s.present>>,
          present |-> s.future[1],
          future  |-> SubSeq(s.future, 2, Len(s.future))]
    ELSE s

IsSet(n, l, t) == set(n, l, t) /\ state.present # undefined

Differs(n) == resolvedPresentState(n, state.present.state) # state.present.state

\* ---- claims ----

\* C1: in every reachable state, also between two renders, present is a
\* defined HistoryEntry.
C1_PresentDefined == state.present # undefined

\* C2: every operation checks its precondition and makes its update against
\* the state left by the operation issued before it, so each call has the
\* effect the sequential semantics gives it on that state.
C2_Atomic ==
    [][ /\ undo => state' = SeqUndo(state)
        /\ redo => state' = SeqRedo(state)
        /\ clearHistory => state' = [state EXCEPT !.past = <<>>, !.future = <<>>]
        /\ \A v \in Values, l \in LabelArgs :
             setInitial(v, l) => /\ state'.past = <<>>
                                 /\ state'.future = <<>>
                                 /\ state'.present.state = v
        /\ \A n \in NewPresentStates, l \in LabelArgs, t \in Times :
             IsSet(n, l, t) =>
                IF Differs(n)
                THEN /\ state'.past = state.past \o <<state.present>>
                     /\ state'.future = <<>>
                     /\ state'.present.state =
                            resolvedPresentState(n, state.present.state)
                ELSE state' = state
      ]_vars

\* C3: a set whose resolved value differs from the present value appends the
\* old present entry to the end of past (past grows by exactly one) and
\* installs {value: resolved value, label: the supplied label} as present.
C3_SetAppends ==
    [][ \A n \in NewPresentStates, l \in LabelArgs, t \in Times :
          (IsSet(n, l, t) /\ Differs(n)) =>
             /\ state'.past = state.past \o <<state.present>>
             /\ Len(state'.past) = Len(state.past) + 1
             /\ state'.present.state = resolvedPresentState(n, state.present.state)
             /\ l # Omitted => state'.present.label = l
      ]_vars

\* a set has just pushed the old present behind an older past entry
C3_Witness ==
    /\ lastOp = "set"
    /\ Len(before.past) > 0
    /\ before.present # undefined
    /\ state.present.state # before.present.state
    /\ Len(state.past) = Len(before.past) + 1

C5_SetSameIsNoOp ==
    [][ \A n \in NewPresentStates, l \in LabelArgs, t \in Times :
          (IsSet(n, l, t) /\ ~Differs(n)) =>
             /\ state' = state
             /\ nextId' = nextId
             /\ ~crashed'
      ]_vars

\* a set left a state with entries on both sides untouched
C5_Witness ==
    /\ lastOp = "set"
    /\ state = before
    /\ state.present # undefined
    /\ Len(state.past) > 0
    /\ Len(state.future) > 0
    /\ ~crashed

\* C6: whenever past is non-empty when undo() is called, undo removes the last
\* entry of past, puts the old present at the front of future and installs
\* the removed entry as present.
C6_UndoMoves ==
    [][ (undo /\ Len(state.past) > 0) =>
           /\ state'.past = SubSeq(state.past, 1, Len(state.past) - 1)
           /\ state'.present = state.past[Len(state.past)]
           /\ state'.future = <<state.present>> \o state.future
      ]_vars

\* C7: undo() called when past is empty leaves past, present and future
\* unchanged.
C7_UndoEmptyNoOp ==
    [][ (undo /\ Len(state.past) = 0) => state' = state ]_vars

\* C8: whenever future is non-empty when redo() is called, redo removes the
\* first entry of future, appends the old present to past and installs the
\* removed entry as present.
C8_RedoMoves ==
    [][ (redo /\ Len(state.future) > 0) =>
           /\ state'.future = SubSeq(state.future, 2, Len(state.future))
           /\ state'.present = state.future[1]
           /\ state'.past = state.past \o <<state.present>>
      ]_vars

\* C9: redo() called when future is empty leaves past, present and future
\* unchanged.
C9_RedoEmptyNoOp ==
    [][ (redo /\ Len(state.future) = 0) => state' = state ]_vars

\* C10: undo and redo are exact inverses; for k = 1: an undo() issued with a
\* non-empty past and directly followed by a redo(), and a redo() issued with
\* a non-empty future and directly followed by an undo(), give back the
\* identical HistoryState.
C10_UndoRedoInverse ==
    [][ /\ (redo /\ lastOp = "undo" /\ Len(before.past) > 0) => state' = before
        /\ (undo /\ lastOp = "redo" /\ Len(before.future) > 0) => state' = before
      ]_vars

C12_ClearHistory ==
    [][ /\ clearHistory =>
             state' = [past |-> <<>>, present |-> state.present, future |-> <<>>]
        /\ ((undo \/ redo) /\ lastOp = "clearHistory") => state' = state
      ]_vars

\* C13: wherever a caller can read or act on them, also right after an
\* operation has been issued, canUndo is true exactly when past is non-empty
\* and canRedo exactly when future is non-empty.
C13_QueriesConsistent ==
    /\ canUndo = (Len(state.past) > 0)
    /\ canRedo = (Len(state.future) > 0)

C15_LinearHistory ==
    LET h == state.past \o <<state.present>>
    IN  \A i \in 1 .. Len(h) - 1 :
            /\ h[i] # undefined
            /\ h[i + 1] # undefined
            /\ h[i].id < h[i + 1].id
            /\ h[i].state # h[i + 1].state

\* every entry held in past, present or future
EntriesOf(s) ==
    {s.past[i] : i \in 1 .. Len(s.past)} \cup {s.present}
        \cup {s.future[i] : i \in 1 .. Len(s.future)}

\* C17: an entry made without an explicit label never has an empty label: a
\* value-changing set without label is labelled "Update at <time of the
\* call>", the constructor and setInitial without label "Initial State".
C17_DefaultLabels ==
    [][ /\ \A n \in NewPresentStates, t \in Times :
             (IsSet(n, Omitted, t) /\ Differs(n)) =>
                /\ state'.present.label = "Update at " \o t
                /\ state'.present.label # ""
        /\ \A v \in Values :
             setInitial(v, Omitted) => state'.present.label = "Initial State"
        /\ \A e \in EntriesOf(state') : e.id = 1 => e.label = "Initial State"
      ]_vars

\* a set without label has just made the present entry
C17_Witness ==
    /\ lastOp = "set"
    /\ state # before
    /\ state.present.label = "Update at 10:15:00 AM"
    /\ Len(state.past) > 0

\* C19: a HistoryEntry never changes: every operation only moves entries
\* between past, present and future, so an entry found again after a step has
\* the value and label it had before, and the currentLabel a render returns
\* is the label of the present entry, also after undo and redo.
C19_EntriesImmutable ==
    [][ /\ \A e \in EntriesOf(state'), f \in EntriesOf(state) :
             (e.id = f.id /\ e.id # 0) => e = f
        /\ \A e \in EntriesOf(state') :
             (e.id # 0 /\ e.id \notin AllIds(state)) => e.id = nextId
        /\ (Render /\ ~crashed') => returned'.currentLabel = state.present.label
      ]_vars

\* a render returned the label of an entry that undo brought back
C19_Witness ==
    /\ pending = 0
    /\ lastOp = "undo"
    /\ state # before
    /\ state.present # undefined
    /\ returned.currentLabel = state.present.label
    /\ state.present = before.past[Len(before.past)]

\* ---- the worked example of section 8 of the specification ----

ScenarioEntries == 4    \* HistoryEntry objects the example allocates

\* the set calls of the example
ScenarioCalls ==
    {[v |-> 1, l |-> "inc"], [v |-> 2, l |-> "inc"], [v |-> 5, l |-> "jump"]}

\* set called with a literal value and an explicit label
scenarioSet(v, l) ==
    /\ ~crashed
    /\ pending < MaxBatch
    /\ Issued("set")
    /\ Len(state.past) < ScenarioEntries
    /\ IF state.present = undefined
       THEN /\ crashed' = TRUE
            /\ UNCHANGED <<state, nextId, discarded>>
       ELSE LET e == HistoryEntry(v, l, nextId)
            IN  /\ v # state.present.state => nextId <= ScenarioEntries
                /\ state' = setUpdater(state, v, e)
                /\ nextId' = IF state' = state THEN nextId ELSE nextId + 1
                /\ discarded' = IF state' = state THEN discarded
                                ELSE discarded \cup Ids(state.future)
                /\ UNCHANGED crashed
    /\ UNCHANGED <<canUndo, canRedo, returned, baseline>>

NextScenario ==
    \/ undo /\ UNCHANGED appVars
    \/ redo /\ UNCHANGED appVars
    \/ \E c \in ScenarioCalls : scenarioSet(c.v, c.l) /\ UNCHANGED appVars
    \/ Render /\ UNCHANGED appVars

SpecScenario == Init /\ [][NextScenario]_vars

E0 == [state |-> 0, label |-> "Initial State", id |-> 1]
E1 == [state |-> 1, label |-> "inc", id |-> 2]
E2 == [state |-> 2, label |-> "inc", id |-> 3]
E5 == [state |-> 5, label |-> "jump", id |-> 4]

ChatSession(i, title, messages) == [id |-> i, title |-> title, messages |-> messages]

\* the session a backup file holds
BackupSession == ChatSession(7, "old chat", <<"model", "user", "model">>)

\* a field the file does not have
Missing == ""

\* backup files handed to handleRestoreFromBackup: a well-formed file and
\* files with one defect each
FullBackup ==
    [version |-> 1, contactsIsArray |-> TRUE, contacts |-> <<>>,
     calendarEvents |-> "backup", theme |-> "light",
     displaySettings |-> "backup", chatSessionsIsArray |-> TRUE,
     chatSessions |-> <<BackupSession>>]

BackupData ==
    {FullBackup,
     [FullBackup EXCEPT !.chatSessions = <<>>],
     [FullBackup EXCEPT !.calendarEvents = Missing],
     [FullBackup EXCEPT !.version = 0],
     [FullBackup EXCEPT !.version = 2],
     [FullBackup EXCEPT !.contactsIsArray = FALSE],
     [FullBackup EXCEPT !.theme = Missing],
     [FullBackup EXCEPT !.displaySettings = Missing],
     [FullBackup EXCEPT !.chatSessionsIsArray = FALSE]}

\* a guard that forgets the chat sessions
validBackup_noChatCheck(backup) ==
    /\ backup.version = 1
    /\ backup.contactsIsArray
    /\ backup.theme # Missing
    /\ backup.displaySettings # Missing

\* the guard of handleRestoreFromBackup, negated:
\* !backup.version || backup.version !== 1 || !Array.isArray(backup.contacts)
\* || !backup.theme || !backup.displaySettings || !Array.isArray(backup.chatSessions)
validBackup(backup) ==
    /\ backup.version # 0
    /\ backup.version = 1
    /\ backup.contactsIsArray
    /\ backup.theme # Missing
    /\ backup.displaySettings # Missing
    /\ backup.chatSessionsIsArray

\* contacts.map(c => ({...c, defaults for the fields it lacks})): the contacts
\* in a new array; the fields this model keeps are copied as they are
migrateContacts(contacts) == [i \in 1 .. Len(contacts) |-> contacts[i]]

\* sessions[0]?.id || null
firstSessionId(sessions) == IF Len(sessions) > 0 THEN sessions[1].id ELSE NoSession

\* prev => prev.map(...): always a newly allocated array
updateContact ==
    \E t \in Times :
        set([kind |-> "function", v |-> 0, f |-> "next"], "Updated Ada Lovelace", t)

\* prev => prev when the source contact is missing, else a new array
handleLinkContacts(sourceFound) ==
    \E t \in Times :
        set([kind |-> "function", v |-> 0,
             f |-> IF sourceFound THEN "next" ELSE "same"],
            "Linked 1 contact(s)", t)

\* the mount effect.  ok: Promise.all resolved; loadedContacts: the array
\* loadContacts resolved to, contents: the contacts in it.  The catch block
\* only logs; finally calls setIsLoading(false).
loadInitialData(ok, loadedContacts, contents, loadedChatSessions) ==
    /\ isLoading
    /\ lastOp = "construct"
    /\ IF ok
       THEN /\ setInitial(loadedContacts, "Loaded contacts from database")
            /\ heap' = (loadedContacts :> contents) @@ heap
            /\ calendarEvents' = "loaded"
            /\ theme' = "light"
            /\ displaySettings' = "loaded"
            /\ chatSessions' = loadedChatSessions
            /\ activeChatSessionId' = firstSessionId(loadedChatSessions)
            /\ chatInstance' = TRUE
       ELSE UNCHANGED <<hookVars, heap, calendarEvents, theme, displaySettings,
                        chatSessions, activeChatSessionId, chatInstance>>
    /\ isLoading' = FALSE
    /\ UNCHANGED <<renderedIsLoading, saved, currentPage, lastAlert,
                   isChatLoading, requests, clock>>

\* restoredContacts is the array migrateContacts(backup.contacts) allocated
handleRestoreFromBackup(backup, restoredContacts) ==
    IF validBackup(backup)
    THEN /\ setInitial(restoredContacts, "Restored from backup")
         /\ heap' = (restoredContacts :> migrateContacts(backup.contacts)) @@ heap
         /\ calendarEvents' = IF backup.calendarEvents = Missing THEN "[]"
                              ELSE backup.calendarEvents
         /\ theme' = backup.theme
         /\ displaySettings' = backup.displaySettings
         /\ chatSessions' = backup.chatSessions
         /\ activeChatSessionId' = firstSessionId(backup.chatSessions)
         /\ currentPage' = "contacts"
         /\ lastAlert' = "Restore successful!"
         /\ UNCHANGED <<isLoading, renderedIsLoading, saved, isChatLoading,
                        chatInstance, requests, clock>>
    ELSE /\ lastAlert' = "Invalid or corrupted backup file."
         /\ UNCHANGED <<hookVars, isLoading, renderedIsLoading, saved, theme,
                        currentPage, calendarEvents, displaySettings, chatVars,
                        contactVars>>

\* an effect that watches isLoading only
saveContactsEffect_loadingOnly(prevContacts, contacts, prevLoading, loading, entry, sv) ==
    IF ~loading /\ prevLoading # loading
    THEN [contacts |-> contacts, entry |-> entry]
    ELSE sv

\* useEffect(() => { if (!isLoading) saveContacts(contacts) }, [contacts, isLoading]):
\* runs after a render in which contacts or isLoading is not what the render
\* before saw; entry is the identity of the entry contacts comes from
saveContactsEffect(prevContacts, contacts, prevLoading, loading, entry, sv) ==
    IF ~loading /\ (prevContacts # contacts \/ prevLoading # loading)
    THEN [contacts |-> contacts, entry |-> entry]
    ELSE sv

\* a render of App and the effects that follow it; no effect runs after a
\* render that threw
RenderApp ==
    /\ Render
    /\ IF crashed'
       THEN UNCHANGED <<renderedIsLoading, saved>>
       ELSE /\ renderedIsLoading' = isLoading
            /\ saved' = saveContactsEffect(returned.state, returned'.state,
                                           renderedIsLoading, isLoading,
                                           state.present.id, saved)
    /\ UNCHANGED <<isLoading, theme, currentPage, calendarEvents,
                   displaySettings, lastAlert, chatVars, contactVars>>

\* App shows the loader instead of the page while the rendered isLoading is true
pageShown == ~renderedIsLoading

NextApp ==
    \/ \E ok \in BOOLEAN, loadedContacts \in Values :
           loadInitialData(ok, loadedContacts, <<>>, <<>>)
    \/ pageShown /\ updateContact /\ UNCHANGED appVars
    \/ \E sourceFound \in BOOLEAN :
           pageShown /\ handleLinkContacts(sourceFound) /\ UNCHANGED appVars
    \/ \E backup \in BackupData, restoredContacts \in Values :
           pageShown /\ handleRestoreFromBackup(backup, restoredContacts)
    \/ pageShown /\ undo /\ UNCHANGED appVars
    \/ pageShown /\ redo /\ UNCHANGED appVars
    \/ pageShown /\ clearHistory /\ UNCHANGED appVars
    \/ RenderApp

SpecApp == Init /\ [][NextApp]_vars

\* C18: the no-op test of set compares references.  updateContact hands set
\* a newly allocated array, and set records it as a new state (one more
\* entry in past, a new present, future emptied) also when its content
\* equals the present one; handleLinkContacts with a missing source contact
\* hands back prev itself and nothing changes.
C18_IdentityNoOp ==
    [][ /\ (updateContact /\ state.present # undefined)
            => /\ state'.present.state # state.present.state
               /\ state'.past = Append(state.past, state.present)
               /\ state'.present.id = nextId
               /\ state'.future = <<>>
        /\ (handleLinkContacts(FALSE) /\ state.present # undefined)
            => state' = state
      ]_vars

C18_Witness ==
    /\ lastOp = "set"
    /\ before.present # undefined
    /\ state.present.label = "Updated Ada Lovelace"
    /\ Structure(state.present.state) = Structure(before.present.state)
    /\ state.present.state # before.present.state
    /\ state.past = Append(before.past, before.present)

\* C20: once loadInitialData or a restore from a valid backup has called
\* setInitial, the entry it made is the oldest one the manager holds: the
\* present entry is never one that was made before the load/restore, however
\* undo and redo are called afterwards.
C20_LoadIsBaseline ==
    /\ ~(state.present.id >= 1 /\ state.present.id < baseline)
    /\ \A e \in EntriesOf(state) : e.id = 0 \/ e.id >= baseline

C20_Witness ==
    /\ baseline > 1
    /\ lastOp = "undo"
    /\ state # before
    /\ state.present.id = baseline
    /\ state.present.label \in {"Loaded contacts from database", "Restored from backup"}
    /\ state.past = <<>>
    /\ Len(state.future) > 0

\* ---- the chat sessions ----

MaxSessions == 2   \* chat sessions kept at a time
MaxMessages == 3   \* messages in one session
MaxClock    == 2   \* milliseconds Date.now() advances
MaxRequests == 1   \* runs of handleSendChatMessage awaiting the model at a time

\* time passes
Tick ==
    /\ clock < MaxClock
    /\ clock' = clock + 1
    /\ UNCHANGED <<hookVars, shellVars, chatVars, heap>>

SessionIds(sessions) == {sessions[i].id : i \in 1 .. Len(sessions)}

\* prev.filter(s => s.id !== sessionId)
withoutSession(sessions, sessionId) ==
    SelectSeq(sessions, LAMBDA s : s.id # sessionId)

\* prev.map(s => s.id === id ? {...s, messages: [...s.messages, message]} : s)
withMessage(sessions, sessionId, message) ==
    [i \in 1 .. Len(sessions) |->
        IF sessions[i].id = sessionId
        THEN [sessions[i] EXCEPT !.messages = Append(@, message)]
        ELSE sessions[i]]

\* handleSendChatMessage up to its first await: the user message is stored,
\* in new-chat mode in a session made for it, and the request is sent
handleSendChatMessage ==
    /\ chatInstance
    /\ Cardinality(requests) < MaxRequests
    /\ LET currentSessionId == IF activeChatSessionId = NoSession THEN clock
                               ELSE activeChatSessionId
       IN  /\ IF activeChatSessionId = NoSession
              THEN /\ Len(chatSessions) < MaxSessions
                   /\ chatSessions' =
                          <<ChatSession(clock, "message", <<"model", "user">>)>>
                              \o chatSessions
                   /\ activeChatSessionId' = clock
              ELSE /\ \A i \in 1 .. Len(chatSessions) :
                          Len(chatSessions[i].messages) < MaxMessages - 1
                   /\ chatSessions' = withMessage(chatSessions, activeChatSessionId, "user")
                   /\ UNCHANGED activeChatSessionId
           /\ requests' = requests \cup {[session  |-> currentSessionId,
                                          contacts |-> returned.state]}
    /\ isChatLoading' = TRUE
    /\ UNCHANGED <<hookVars, shellVars, chatInstance, contactVars>>

\* the request ends without (further) function calls: role is 'model' when
\* sendMessage resolved, 'error' when it threw; finally setIsChatLoading(false)
answerChatMessage(request, role) ==
    /\ request \in requests
    /\ chatSessions' = withMessage(chatSessions, request.session, role)
    /\ isChatLoading' = FALSE
    /\ requests' = requests \ {request}
    /\ UNCHANGED <<hookVars, shellVars, activeChatSessionId, chatInstance, contactVars>>

handleNewChat ==
    /\ activeChatSessionId' = NoSession
    /\ UNCHANGED <<hookVars, shellVars, chatSessions, isChatLoading, chatInstance,
                   requests, contactVars>>

\* onSelectSession={setActiveChatSessionId}, for a session of the list
selectSession(sessionId) ==
    /\ sessionId \in SessionIds(chatSessions)
    /\ activeChatSessionId' = sessionId
    /\ UNCHANGED <<hookVars, shellVars, chatSessions, isChatLoading, chatInstance,
                   requests, contactVars>>

\* a delete that leaves the active session as it is
handleDeleteChat_keepActive(sessionId) ==
    /\ sessionId \in SessionIds(chatSessions)
    /\ chatSessions' = withoutSession(chatSessions, sessionId)
    /\ UNCHANGED <<hookVars, shellVars, activeChatSessionId, isChatLoading,
                   chatInstance, requests, contactVars>>

handleDeleteChat(sessionId) ==
    /\ sessionId \in SessionIds(chatSessions)
    /\ chatSessions' = withoutSession(chatSessions, sessionId)
    /\ activeChatSessionId' =
           IF activeChatSessionId = sessionId
           THEN firstSessionId(chatSessions')
           ELSE activeChatSessionId
    /\ UNCHANGED <<hookVars, shellVars, isChatLoading, chatInstance, requests,
                   contactVars>>

handleRenameChat(sessionId, newTitle) ==
    /\ sessionId \in SessionIds(chatSessions)
    /\ chatSessions' = [i \in 1 .. Len(chatSessions) |->
                           IF chatSessions[i].id = sessionId
                           THEN [chatSessions[i] EXCEPT !.title = newTitle]
                           ELSE chatSessions[i]]
    /\ UNCHANGED <<hookVars, shellVars, activeChatSessionId, isChatLoading,
                   chatInstance, requests, contactVars>>

NextChat ==
    \/ \E ok \in BOOLEAN, sessions \in {<<>>, <<BackupSession>>} :
           loadInitialData(ok, 1, <<>>, sessions)
    \/ RenderApp
    \/ Tick
    \/ pageShown /\ handleSendChatMessage
    \/ \E request \in requests, role \in {"model", "error"} :
           answerChatMessage(request, role)
    \/ pageShown /\ handleNewChat
    \/ \E sessionId \in SessionIds(chatSessions) : pageShown /\ selectSession(sessionId)
    \/ \E sessionId \in SessionIds(chatSessions) : pageShown /\ handleDeleteChat(sessionId)
    \/ \E sessionId \in SessionIds(chatSessions) :
           pageShown /\ handleRenameChat(sessionId, "renamed")
    \/ \E backup \in BackupData : pageShown /\ handleRestoreFromBackup(backup, 1)

SpecChat == Init /\ [][NextChat]_vars

\* C27: when a request ends, its answer (one message of role model or error)
\* is the last message of the session the user message was sent in, and
\* isChatLoading is false again.
C27_AnsweredInOwnSession ==
    [][ \A request \in requests, role \in {"model", "error"} :
            answerChatMessage(request, role)
                => /\ ~isChatLoading'
                   /\ \E i \in 1 .. Len(chatSessions') :
                          /\ chatSessions'[i].id = request.session
                          /\ chatSessions'[i].messages[Len(chatSessions'[i].messages)] = role
      ]_vars

\* C28: activeChatSessionId is null or the id of a session in chatSessions.
C28_ActiveSessionExists ==
    \/ activeChatSessionId = NoSession
    \/ activeChatSessionId \in SessionIds(chatSessions)

C28_Witness ==
    /\ activeChatSessionId # NoSession
    /\ activeChatSessionId \in SessionIds(chatSessions)
    /\ Len(chatSessions) = 1
    /\ chatSessions[1].id = clock
    /\ lastAlert = "Restore successful!"
    /\ requests = {}
    /\ chatSessions[1].messages[Len(chatSessions[1].messages)] = "model"

\* ---- the contacts ----
\* A value of the manager is a reference to a Contact[]; heap[r] holds the
\* contacts of the array r refers to.  An updater that builds an array
\* (map, filter, spread) returns a reference no array had before.

\* Contact: the fields the handlers below read or write; deletedAt is TRUE
\* when the timestamp is set
Contact(i, firstName, lastName, isArchived, isBlocked, deletedAt, linkedContactIds) ==
    [id |-> i, firstName |-> firstName, lastName |-> lastName,
     isArchived |-> isArchived, isBlocked |-> isBlocked, deletedAt |-> deletedAt,
     linkedContactIds |-> linkedContactIds]

\* prev inside an updater handed to setContacts
prev == heap[state.present.state]

\* contacts as the last render returned it (what the handlers' closures hold)
contacts == heap[returned.state]

ContactIdsOf(cs) == {cs[i].id : i \in 1 .. Len(cs)}

\* useMemo filters of App
activeContacts(cs) == SelectSeq(cs, LAMBDA c : ~c.isArchived /\ ~c.isBlocked /\ ~c.deletedAt)
archivedContacts(cs) == SelectSeq(cs, LAMBDA c : c.isArchived /\ ~c.deletedAt)
blockedContacts(cs) == SelectSeq(cs, LAMBDA c : c.isBlocked /\ ~c.deletedAt)
trashContacts(cs) == SelectSeq(cs, LAMBDA c : c.deletedAt)

\* contacts.find(c => c.id === contactId)?.firstName || 'contact'
firstNameOr(contactId) ==
    LET found == SelectSeq(contacts, LAMBDA c : c.id = contactId)
    IN  IF Len(found) > 0 THEN found[1].firstName ELSE "contact"

\* setContacts(updater, label) with an updater that returns prev itself
\* ("same") or builds the array newContacts ("alloc")
setContacts(updater, newContacts, label) ==
    /\ \E t \in Times :
           set([kind |-> "function", v |-> nextId, f |-> updater], label, t)
    /\ heap' = IF state.present = undefined \/ state' = state
               THEN heap
               ELSE (nextId :> newContacts) @@ heap
    /\ UNCHANGED <<shellVars, chatVars, clock>>

\* an archive that leaves isBlocked as it is
toggleArchiveContact_keepBlocked(contactId, archive) ==
    setContacts("alloc",
        [i \in 1 .. Len(prev) |-> LET c == prev[i] IN IF c.id = contactId
                                     THEN [c EXCEPT !.isArchived = archive]
                                     ELSE c],
        (IF archive THEN "Archived " ELSE "Unarchived ") \o firstNameOr(contactId))

toggleArchiveContact(contactId, archive) ==
    setContacts("alloc",
        [i \in 1 .. Len(prev) |-> LET c == prev[i] IN IF c.id = contactId
                                     THEN [c EXCEPT !.isArchived = archive,
                                                    !.isBlocked = FALSE]
                                     ELSE c],
        (IF archive THEN "Archived " ELSE "Unarchived ") \o firstNameOr(contactId))

toggleBlockContact(contactId, block) ==
    setContacts("alloc",
        [i \in 1 .. Len(prev) |-> LET c == prev[i] IN IF c.id = contactId
                                     THEN [c EXCEPT !.isBlocked = block,
                                                    !.isArchived = FALSE]
                                     ELSE c],
        (IF block THEN "Blocked " ELSE "Unblocked ") \o firstNameOr(contactId))

\* returns early when none of contactIds is in the rendered contacts
\* moveContactsToTrash as the render that returned `rendered` created it:
\* useCallback(..., [contacts, setContacts]) reads that render's contacts
moveContactsToTrashOf(rendered, contactIds) ==
    LET contactsToTrash == SelectSeq(rendered, LAMBDA c : c.id \in contactIds)
    IN  IF Len(contactsToTrash) = 0
        THEN UNCHANGED vars
        ELSE setContacts("alloc",
                 [i \in 1 .. Len(prev) |-> LET c == prev[i] IN IF c.id \in contactIds
                                              THEN [c EXCEPT !.deletedAt = TRUE]
                                              ELSE c],
                 IF Len(contactsToTrash) > 1
                 THEN "Moved " \o ToString(Len(contactsToTrash)) \o " contacts to trash"
                 ELSE "Moved " \o contactsToTrash[1].firstName \o " "
                          \o contactsToTrash[1].lastName \o " to trash")

moveContactsToTrash(contactIds) == moveContactsToTrashOf(contacts, contactIds)

restoreContactFromTrash(contactId) ==
    setContacts("alloc",
        [i \in 1 .. Len(prev) |-> LET c == prev[i] IN IF c.id = contactId
                                     THEN [c EXCEPT !.deletedAt = FALSE]
                                     ELSE c],
        "Restored " \o firstNameOr(contactId))

deleteContactPermanently(contactId) ==
    setContacts("alloc",
        SelectSeq(prev, LAMBDA c : c.id # contactId),
        "Permanently deleted " \o firstNameOr(contactId))

\* SettingsPage, bulk actions: ids are taken from the rendered views
handleUnarchiveAll ==
    LET ids == ContactIdsOf(archivedContacts(contacts))
    IN  setContacts("alloc",
            [i \in 1 .. Len(prev) |-> LET c == prev[i] IN IF c.id \in ids
                                         THEN [c EXCEPT !.isArchived = FALSE]
                                         ELSE c],
            "Unarchived " \o ToString(Cardinality(ids)) \o " contacts")

handleUnblockAll ==
    LET ids == ContactIdsOf(blockedContacts(contacts))
    IN  setContacts("alloc",
            [i \in 1 .. Len(prev) |-> LET c == prev[i] IN IF c.id \in ids
                                         THEN [c EXCEPT !.isBlocked = FALSE]
                                         ELSE c],
            "Unblocked " \o ToString(Cardinality(ids)) \o " contacts")

handleRestoreAll ==
    LET ids == ContactIdsOf(trashContacts(contacts))
    IN  setContacts("alloc",
            [i \in 1 .. Len(prev) |-> LET c == prev[i] IN IF c.id \in ids
                                         THEN [c EXCEPT !.deletedAt = FALSE]
                                         ELSE c],
            "Restored " \o ToString(Cardinality(ids)) \o " contacts")

handleEmptyTrash ==
    LET ids == ContactIdsOf(trashContacts(contacts))
    IN  setContacts("alloc",
            SelectSeq(prev, LAMBDA c : c.id \notin ids),
            "Emptied trash (" \o ToString(Cardinality(ids)) \o " contacts)")

\* ---- the four views ----

\* isArchived, isBlocked, deletedAt of a stored contact: not archived and
\* blocked at once
StoredFlags ==
    {f \in [isArchived : BOOLEAN, isBlocked : BOOLEAN, deletedAt : BOOLEAN] :
        ~(f.isArchived /\ f.isBlocked)}

\* what loadContacts resolves to: Ada in any of the views, Bob archived
StoredContacts ==
    {<<Contact(1, "Ada", "Lovelace", a.isArchived, a.isBlocked, a.deletedAt, {}),
       Contact(2, "Bob", "Stone", TRUE, FALSE, FALSE, {})>> :
        a \in StoredFlags}

\* the contact pages offer archive, block and delete for every contact; the
\* trash tab offers restore and delete for the contacts it lists, and a bulk
\* action is offered by the tab of a view that is not empty
NextViews ==
    \/ \E ok \in BOOLEAN, cs \in StoredContacts : loadInitialData(ok, nextId, cs, <<>>)
    \/ RenderApp
    \/ \E contactId \in ContactIdsOf(contacts), archive \in BOOLEAN :
           pageShown /\ toggleArchiveContact(contactId, archive)
    \/ \E contactId \in ContactIdsOf(contacts), block \in BOOLEAN :
           pageShown /\ toggleBlockContact(contactId, block)
    \/ \E contactId \in ContactIdsOf(contacts) :
           pageShown /\ moveContactsToTrash({contactId})
    \/ \E contactId \in ContactIdsOf(trashContacts(contacts)) :
           pageShown /\ restoreContactFromTrash(contactId)
    \/ \E contactId \in ContactIdsOf(trashContacts(contacts)) :
           pageShown /\ deleteContactPermanently(contactId)
    \/ pageShown /\ Len(archivedContacts(contacts)) > 0 /\ handleUnarchiveAll
    \/ pageShown /\ Len(blockedContacts(contacts)) > 0 /\ handleUnblockAll
    \/ pageShown /\ Len(trashContacts(contacts)) > 0 /\ handleRestoreAll
    \/ pageShown /\ Len(trashContacts(contacts)) > 0 /\ handleEmptyTrash
    \/ pageShown /\ undo /\ UNCHANGED appVars
    \/ pageShown /\ redo /\ UNCHANGED appVars

SpecViews == Init /\ [][NextViews]_vars

Range(q) == {q[i] : i \in 1 .. Len(q)}

\* the views of cs that show the contact c
ViewsShowing(c, cs) ==
    {v \in {"active", "archived", "blocked", "trash"} :
        c \in Range(CASE v = "active"   -> activeContacts(cs)
                      [] v = "archived" -> archivedContacts(cs)
                      [] v = "blocked"  -> blockedContacts(cs)
                      [] OTHER          -> trashContacts(cs))}

\* C29: every contact of every list the manager was handed, the present and
\* the rendered one among them, is shown by exactly one of the four views;
\* none is archived and blocked at once.
C29_ExactlyOneView ==
    \A r \in DOMAIN heap :
        \A c \in Range(heap[r]) :
            /\ Cardinality(ViewsShowing(c, heap[r])) = 1
            /\ ~(c.isArchived /\ c.isBlocked)

C29_Witness ==
    /\ lastOp = "set"
    /\ state # before
    /\ state.present.label = "Archived Ada"
    /\ heap[before.present.state][1].isBlocked
    /\ heap[state.present.state][1].isArchived
    /\ ViewsShowing(heap[state.present.state][1], heap[state.present.state]) = {"archived"}

\* ---- links between contacts ----

\* handleLinkContacts on the contacts themselves (handleLinkContacts above
\* keeps only whether the source contact was found): the updater copies
\* every contact into a Map, returns prev when sourceId is not a key, else
\* adds every target id to the source and, for the targets the Map has,
\* sourceId to the target
linkContactsUpdater(cs, sourceId, targetIds) ==
    [i \in 1 .. Len(cs) |-> LET c == cs[i] IN
        IF c.id = sourceId
        THEN [c EXCEPT !.linkedContactIds = @ \cup targetIds]
        ELSE IF c.id \in targetIds
             THEN [c EXCEPT !.linkedContactIds = @ \cup {sourceId}]
             ELSE c]

handleLinkContactsOf(sourceId, targetIds) ==
    IF state.present # undefined /\ sourceId \notin ContactIdsOf(prev)
    THEN setContacts("same", prev,
                     "Linked " \o ToString(Cardinality(targetIds)) \o " contact(s)")
    ELSE setContacts("alloc", linkContactsUpdater(prev, sourceId, targetIds),
                     "Linked " \o ToString(Cardinality(targetIds)) \o " contact(s)")

handleUnlinkContact(sourceId, targetId) ==
    setContacts("alloc",
        [i \in 1 .. Len(prev) |-> LET c == prev[i] IN
            IF c.id = sourceId
            THEN [c EXCEPT !.linkedContactIds = @ \ {targetId}]
            ELSE IF c.id = targetId
                 THEN [c EXCEPT !.linkedContactIds = @ \ {sourceId}]
                 ELSE c],
        "Unlinked contact")

\* contactToKeep is the object the merge dialog built from the rendered
\* primary contact ({...primaryContact, ...mergedData})
handleMergeContacts(contactToKeep, idsToRemove) ==
    setContacts("alloc",
        LET filtered == SelectSeq(prev, LAMBDA c : c.id \notin idsToRemove)
        IN  [i \in 1 .. Len(filtered) |->
                IF filtered[i].id = contactToKeep.id THEN contactToKeep
                ELSE filtered[i]],
        "Merged " \o ToString(Cardinality(idsToRemove) + 1) \o " contacts")

\* what loadContacts resolves to: Ada and Bob, linked to each other or not,
\* Bob in the trash or not
LinkedContacts ==
    {<<Contact(1, "Ada", "Lovelace", FALSE, FALSE, FALSE, IF linked THEN {2} ELSE {}),
       Contact(2, "Bob", "Stone", FALSE, FALSE, trashed, IF linked THEN {1} ELSE {})>> :
        linked \in BOOLEAN, trashed \in BOOLEAN}

\* the link dialog offers the contacts the current one is not linked to, the
\* detail page an unlink for each linked id, the merge dialog one of the
\* selected contacts as primary
NextLinks ==
    \/ \E ok \in BOOLEAN, cs \in LinkedContacts : loadInitialData(ok, nextId, cs, <<>>)
    \/ RenderApp
    \/ \E source \in Range(contacts), target \in Range(contacts) :
           /\ pageShown
           /\ target.id # source.id
           /\ target.id \notin source.linkedContactIds
           /\ handleLinkContactsOf(source.id, {target.id})
    \/ \E source \in Range(contacts) : \E targetId \in source.linkedContactIds :
           pageShown /\ handleUnlinkContact(source.id, targetId)
    \/ \E primary \in Range(contacts) :
           /\ pageShown
           /\ Len(contacts) > 1
           /\ handleMergeContacts(primary, ContactIdsOf(contacts) \ {primary.id})
    \/ \E contactId \in ContactIdsOf(trashContacts(contacts)) :
           pageShown /\ deleteContactPermanently(contactId)
    \/ pageShown /\ Len(trashContacts(contacts)) > 0 /\ handleEmptyTrash
    \/ pageShown /\ undo /\ UNCHANGED appVars
    \/ pageShown /\ redo /\ UNCHANGED appVars

SpecLinks == Init /\ [][NextLinks]_vars

\* C30: in the present contact list every linked id is the id of a contact
\* of the list, and that contact links back.
C30_LinksSymmetric ==
    state.present # undefined =>
        \A a \in Range(prev) : \A b \in a.linkedContactIds :
            \E c \in Range(prev) : c.id = b /\ a.id \in c.linkedContactIds

\* ---- the assistant's function calls, and the CSV import ----

\* String.prototype.toLowerCase on the full names in use
toLowerCase(s) ==
    CASE s = "Ada Lovelace" -> "ada lovelace"
      [] s = "ADA LOVELACE" -> "ada lovelace"
      [] s = "Bob Stone"    -> "bob stone"
      [] OTHER              -> s

\* `${c.firstName} ${c.lastName}`
fullName(firstName, lastName) == firstName \o " " \o lastName

\* addContact: id is Date.now().toString(), the new contact goes first
addContact(contactData) ==
    setContacts("alloc",
        <<Contact(clock, contactData.firstName, contactData.lastName,
                  FALSE, FALSE, FALSE, {})>> \o prev,
        "Added " \o fullName(contactData.firstName, contactData.lastName))

\* case 'addContact' of a response's function calls
callAddContact(request, args) ==
    /\ request \in requests
    /\ IF args.firstName = Missing \/ args.lastName = Missing \/ args.phone = Missing
       THEN UNCHANGED vars
       ELSE addContact(args)

\* the active contacts the request's closure holds that carry the name
matchingContacts(cs, firstName, lastName) ==
    SelectSeq(activeContacts(cs), LAMBDA c :
        toLowerCase(fullName(c.firstName, c.lastName))
            = toLowerCase(fullName(firstName, lastName)))

\* case 'removeContact': activeContacts and moveContactsToTrash are those of
\* the render in which the message was sent
callRemoveContact(request, firstName, lastName) ==
    /\ request \in requests
    /\ LET matching == matchingContacts(heap[request.contacts], firstName, lastName)
       IN  IF Len(matching) = 1
           THEN moveContactsToTrashOf(heap[request.contacts], {matching[1].id})
           ELSE UNCHANGED vars

\* `${Date.now()}-${i}` of imported row i: never the text of a plain
\* Date.now(), and one text per (time, row)
importId(now, i) == 0 - (10 * now + i)

ImportRows == {1, 2}

\* handleImportFileSelected and confirmImport: the rows get their ids when
\* the file has been read, the confirm click comes later
confirmImport(rows) ==
    /\ clock < MaxClock
    /\ \E t \in Times :
           set([kind |-> "function", v |-> nextId, f |-> "alloc"],
               "Imported " \o ToString(rows) \o " contacts", t)
    /\ heap' = IF state.present = undefined \/ state' = state
               THEN heap
               ELSE (nextId :>
                        [i \in 1 .. rows |->
                            Contact(importId(clock, i - 1), "Row", ToString(i),
                                    FALSE, FALSE, FALSE, {})] \o prev) @@ heap
    /\ clock' = clock + 1
    /\ UNCHANGED <<shellVars, chatVars>>

\* stored contacts were created before this session's clock started at 1
StoredPeople ==
    {<<>>,
     <<Contact(0, "Ada", "Lovelace", FALSE, FALSE, FALSE, {})>>,
     <<Contact(0, "Ada", "Lovelace", TRUE, FALSE, FALSE, {})>>,
     <<Contact(0, "Ada", "Lovelace", FALSE, FALSE, FALSE, {}),
       Contact(-1, "ADA", "LOVELACE", FALSE, FALSE, FALSE, {})>>}

AddContactArgs ==
    {[firstName |-> "Ada", lastName |-> "Lovelace", phone |-> "555"],
     [firstName |-> "Ada", lastName |-> "Lovelace", phone |-> Missing]}

NextAssistant ==
    \/ \E ok \in BOOLEAN, cs \in StoredPeople : loadInitialData(ok, nextId, cs, <<>>)
    \/ RenderApp
    \/ Tick
    \/ pageShown /\ handleSendChatMessage
    \/ \E request \in requests, args \in AddContactArgs : callAddContact(request, args)
    \/ \E request \in requests : callRemoveContact(request, "ada", "lovelace")
    \/ \E request \in requests, role \in {"model", "error"} :
           answerChatMessage(request, role)
    \/ \E rows \in ImportRows : pageShown /\ confirmImport(rows)

SpecAssistant == Init /\ [][NextAssistant]_vars

\* C24: no two contacts of the present contact list have the same id.
C24_IdsUnique ==
    state.present # undefined =>
        \A i, j \in 1 .. Len(prev) : i # j => prev[i].id # prev[j].id

\* C26: a removeContact call puts a contact in the trash exactly when one
\* active contact of the present list carries the name (whatever the case of
\* its letters); the contact stays in the list with deletedAt set and one
\* history entry is added; otherwise the list and its history stay as they are.
C26_RemoveIffOneMatch ==
    [][\A request \in requests :
          (state.present # undefined /\ callRemoveContact(request, "ada", "lovelace")) =>
              LET matching == matchingContacts(prev, "ada", "lovelace")
              IN  IF Len(matching) = 1
                  THEN /\ state'.past = Append(state.past, state.present)
                       /\ heap'[state'.present.state] =
                              [i \in 1 .. Len(prev) |-> LET c == prev[i] IN
                                  IF c.id = matching[1].id
                                  THEN [c EXCEPT !.deletedAt = TRUE]
                                  ELSE c]
                  ELSE UNCHANGED <<state, heap>>]_vars

\* ---- persistence and restore ----

\* C21: once loading has finished and the page has been rendered after the
\* last operation, the value last handed to saveContacts is present.state;
\* and saveContacts is called only after a render whose contacts (or
\* isLoading) differ from the render before, so not after a set that
\* changed nothing.
C21_SavedIsPresent ==
    [][ /\ (pageShown' /\ pending' = 0 /\ ~crashed')
            => saved'.contacts = state'.present.state
        /\ saved' # saved
            => (returned'.state # returned.state
                \/ renderedIsLoading' # renderedIsLoading)
      ]_vars

C21_Witness ==
    /\ pageShown
    /\ pending = 0
    /\ ~crashed
    /\ lastOp = "undo"
    /\ state # before
    /\ saved = [contacts |-> state.present.state, entry |-> state.present.id]
    /\ Len(state.future) > 0

\* C22: saveContacts is never handed the placeholder list the manager was
\* constructed with (the state of the entry the constructor made).
C22_PlaceholderNeverSaved == saved.entry # 1

\* the restore of the settings page next to a load, an edit and a render
NextRestore ==
    \/ \E ok \in BOOLEAN, loadedContacts \in Values :
           loadInitialData(ok, loadedContacts, <<>>, <<>>)
    \/ pageShown /\ updateContact /\ UNCHANGED appVars
    \/ \E backup \in BackupData, restoredContacts \in Values :
           pageShown /\ handleRestoreFromBackup(backup, restoredContacts)
    \/ pageShown /\ undo /\ UNCHANGED appVars
    \/ RenderApp

SpecRestore == Init /\ [][NextRestore]_vars

\* what C25 calls an invalid backup
InvalidBackup(backup) ==
    \/ backup.version # 1
    \/ ~backup.contactsIsArray
    \/ ~backup.chatSessionsIsArray
    \/ backup.theme = Missing
    \/ backup.displaySettings = Missing

\* C25: handleRestoreFromBackup with an invalid backup changes no cell of
\* App and nothing of the manager; it only raises the alert.
C25_InvalidRestoreNoChange ==
    [][ \A backup \in BackupData, restoredContacts \in Values :
            (handleRestoreFromBackup(backup, restoredContacts) /\ InvalidBackup(backup))
                => /\ UNCHANGED <<hookVars, isLoading, renderedIsLoading, saved,
                                  theme, currentPage, calendarEvents,
                                  displaySettings, chatVars, contactVars>>
                   /\ lastAlert' = "Invalid or corrupted backup file."
      ]_vars

C25_Witness ==
    /\ lastAlert = "Invalid or corrupted backup file."
    /\ Len(state.past) > 0
    /\ theme = "light"
    /\ currentPage = "dashboard"

\* ---- the timeline ----

timeline(s) == s.past \o <<s.present>> \o s.future

\* C23: an undo or a redo leaves past ++ [present] ++ future as it was;
\* only the place of present in it moves.
C23_TimelineConserved ==
    [][ (undo \/ redo) => timeline(state') = timeline(state) ]_vars

====
